---- MODULE Spec2Model ----
(***************************************************************************)
(* Model of the Dashboard screen (src/pages/Dashboard.tsx): the component  *)
(* state (medicalProfile, qrCodeDataUrl, loading), the mount/user effect,  *)
(* the asynchronous profile fetch and QR encode with their continuations,  *)
(* the click handlers, and the render function.                            *)
(*                                                                         *)
(* JavaScript values: null is the record Null for objects and the string   *)
(* "NULL" for nullable strings; an absent user is NoUser.                  *)
(***************************************************************************)
EXTENDS Integers, Sequences, FiniteSets, TLC

VARIABLES
    user,            \* useAuth().user: a user id or NoUser
    origin,          \* window.location.origin
    store,           \* medical_profiles table: user id -> row or Null
    mounted,         \* the Dashboard route is the rendered route
    effectPending,   \* the [user, navigate] effect of the last commit has not run yet
    medicalProfile,  \* useState<MedicalProfile | null>(null)
    qrCodeDataUrl,   \* useState<string>('')
    loading,         \* useState(true)
    fetches,         \* every fetchMedicalProfile call: its user, status and response
    encodes,         \* every QRCode.toDataURL call: its argument, text and status
    toasts,          \* number of toast() calls
    fetchErrorLogs,  \* number of console.error('Error fetching medical profile:')
    qrErrorLogs,     \* number of console.error('Error generating QR code:')
    navLog,          \* every navigate(path) call, in order
    signOutPc,       \* handleSignOut: "idle", "awaiting" (await signOut()), "done"
    userChanges,     \* number of session changes since mount
    sessionSeen      \* a user has been present at some point since mount

vars == <<user, origin, store, mounted, effectPending, medicalProfile, qrCodeDataUrl,
          loading, fetches, encodes, toasts, fetchErrorLogs, qrErrorLogs, navLog,
          signOutPc, userChanges, sessionSeen>>

\* ------------------------------------------------------------------ bounds
MaxUserChanges == 1

\* ------------------------------------------------------------------ values
NoUser == "none"
Users == {"A", "B"}
Origins == {"https://qrupay.app", "http://localhost:8080"}
Null == [null |-> TRUE]
NullString == "NULL"

\* JS truthiness of a string | null value
Truthy(s) == s # "" /\ s # NullString

Email(u) == IF u = NoUser THEN "" ELSE u \o "@example.com"

\* Rows a user may own: the id may be empty, blood_group may be null.
Row(u, i, b) ==
    [id |-> i, blood_group |-> b,
     emergency_contact_name |-> "Contact of " \o u,
     emergency_contact_phone |-> "555-" \o u]

RowsOf(u) ==
    IF u = "A"
        THEN {Row(u, "abc123", "O+"), Row(u, "abc123", NullString), Row(u, "", "O+")}
        ELSE {Row(u, "xyz789", NullString)}

Stores == { s \in [Users -> UNION {RowsOf(u) : u \in Users} \cup {Null}] :
            \A u \in Users : s[u] = Null \/ s[u] \in RowsOf(u) }

NoResponse == [data |-> Null, error |-> "none"]

\* What `.single()` can resolve to for user u: the row, the "no rows" error
\* PGRST116, or any other error (with or without data).
Responses(u) ==
    (IF store[u] = Null
        THEN {[data |-> Null, error |-> "PGRST116"]}
        ELSE {[data |-> store[u], error |-> "none"],
              [data |-> store[u], error |-> "OTHER"]})
    \cup {[data |-> Null, error |-> "OTHER"]}

\* ------------------------------------------------------------------ helpers
\* faulty variant: the error is looked at only when no data came back
ThrowsUnlessData(resp) ==
    resp.data = Null /\ resp.error # "none" /\ resp.error # "PGRST116"

\* line 50: if (error && error.code !== 'PGRST116') throw error
Throws(resp) == resp.error # "none" /\ resp.error # "PGRST116"

\* line 54: if (data), reached only when nothing was thrown
SetsProfile(resp) == ~Throws(resp) /\ resp.data # Null

\* faulty variant: generateQRCode is called without the test of data.id
CallsGenerateNoIdCheck(resp) == SetsProfile(resp)

\* line 56: if (data.id)
CallsGenerate(resp) == SetsProfile(resp) /\ Truthy(resp.data.id)

\* faulty variant: the separator before the id is missing
emergencyUrlNoSlash(profileId) == origin \o "/emergency" \o profileId

\* line 74: `${window.location.origin}/emergency/${profileId}`
emergencyUrl(profileId) == origin \o "/emergency/" \o profileId

\* the data URL QRCode.toDataURL resolves to for a text
DataUrl(text) == "data:image/png;qr=" \o text

\* faulty variant: setLoading(false) at the end of the try block instead of in finally
LoadingAfterSettleInTry(resp) == Throws(resp)

\* lines 67-69: finally { setLoading(false) }, whatever the outcome
LoadingAfterSettle(resp) == FALSE

\* lines 35-38: if (!user) { navigate('/auth'); return; }
Redirects(u) == u = NoUser

\* faulty variant: the return after the redirect is missing
FetchesProfileNoReturn(u) == TRUE

\* line 39: fetchMedicalProfile() is reached only past the early return
FetchesProfile(u) == ~Redirects(u)

navigate(path) == navLog' = Append(navLog, path)

Init ==
    /\ user \in Users \cup {NoUser}
    /\ origin \in Origins
    /\ store \in Stores
    /\ mounted = TRUE
    /\ effectPending = TRUE
    /\ medicalProfile = Null
    /\ qrCodeDataUrl = ""
    /\ loading = TRUE
    /\ fetches = <<>>
    /\ encodes = <<>>
    /\ toasts = 0
    /\ fetchErrorLogs = 0
    /\ qrErrorLogs = 0
    /\ navLog = <<>>
    /\ signOutPc = "idle"
    /\ userChanges = 0
    /\ sessionSeen = (user # NoUser)

\* ------------------------------------------------------------------ render
Text(label, value) == [kind |-> "text", label |-> label, target |-> "", value |-> value]
Button(label, target) == [kind |-> "button", label |-> label, target |-> target, value |-> ""]
Widget(kind, value) == [kind |-> kind, label |-> "", target |-> "", value |-> value]

\* lines 139-179: the Profile Overview card
ProfileOverview(u, mp) ==
    <<Text("Email", Email(u))>> \o
    (IF mp # Null
        THEN <<Text("Emergency Contact", mp.emergency_contact_name),
               Text("Emergency Contact Phone", mp.emergency_contact_phone)>> \o
             (IF Truthy(mp.blood_group)
                 THEN <<Text("Blood Group", mp.blood_group)>> ELSE <<>>)
        ELSE <<Text("No medical profile found", ""),
               Button("Create Medical Profile", "/profile/edit")>>)

\* faulty variant: the QR card shows the image of qrCodeDataUrl, when there is one
QRCardFromDataUrl(mp) ==
    IF mp # Null /\ Truthy(mp.id) /\ qrCodeDataUrl # ""
        THEN <<Widget("QRCodeGenerator", mp.id)>>
        ELSE <<Text("Emergency QR Code",
                    "Create a medical profile to generate your emergency QR code")>>

\* lines 181-202: the QR card; it reads medicalProfile?.id only, never qrCodeDataUrl
QRCard(mp) ==
    IF mp # Null /\ Truthy(mp.id)
        THEN <<Widget("QRCodeGenerator", mp.id)>>
        ELSE <<Text("Emergency QR Code",
                    "Create a medical profile to generate your emergency QR code")>>

\* lines 205-214
Summary(mp) == IF mp # Null THEN <<Widget("MedicalProfileSummary", mp.id)>> ELSE <<>>

\* faulty variant: the action bar always offers "Edit"
ActionLabelAlwaysEdit(mp) == "Edit Medical Profile"

\* line 225: the label of the first button of the action bar
ActionLabel(mp) == IF mp # Null THEN "Edit Medical Profile" ELSE "Create Medical Profile"

\* lines 217-247: the action bar
Actions(mp) ==
    <<Button(ActionLabel(mp), "/profile/edit")>> \o
    (IF mp # Null
        THEN <<Button("Preview Emergency View", "/emergency/" \o mp.id)>> ELSE <<>>) \o
    <<Button("Medication Reminders", "/medications")>>

\* lines 98-250: what the component returns for the given state
Render(u, mp, ld) ==
    IF ld
        THEN <<Text("Loading...", "")>>
        ELSE <<Button("Sign Out", "signOut"), Button("Home", "/")>> \o
             ProfileOverview(u, mp) \o QRCard(mp) \o Summary(mp) \o Actions(mp)

Screen == Render(user, medicalProfile, loading)

Rendered(e) == \E k \in 1..Len(Screen) : Screen[k] = e

\* ------------------------------------------------------------------ actions
\* lines 34-40: the effect, run after mount and after every change of user
RunEffect ==
    /\ mounted /\ effectPending
    /\ effectPending' = FALSE
    /\ IF Redirects(user) THEN navigate("/auth") ELSE UNCHANGED navLog
    /\ fetches' = IF FetchesProfile(user)
                     THEN Append(fetches, [user |-> user, status |-> "pending",
                                           resp |-> NoResponse, applied |-> FALSE])
                     ELSE fetches
    /\ UNCHANGED <<user, origin, store, mounted, medicalProfile, qrCodeDataUrl, loading,
                   encodes, toasts, fetchErrorLogs, qrErrorLogs, signOutPc, userChanges,
                   sessionSeen>>

\* lines 42-70 after the await, with lines 72-82 of generateQRCode up to its
\* await: the whole continuation runs in one turn of the event loop.  State
\* setters of an unmounted component are no-ops; toast, console.error and the
\* encoder call are not.  React runs the pending effect of a commit before it
\* handles the next update, so a continuation is ordered after it.
SettleFetch(i, resp) ==
    /\ ~effectPending
    /\ i \in 1..Len(fetches)
    /\ fetches[i].status = "pending"
    /\ resp \in Responses(fetches[i].user)
    /\ fetches' = [fetches EXCEPT ![i] =
                      [@ EXCEPT !.status = "settled", !.resp = resp, !.applied = mounted]]
    /\ medicalProfile' = IF mounted /\ SetsProfile(resp) THEN resp.data ELSE medicalProfile
    /\ encodes' = IF CallsGenerate(resp)
                     THEN Append(encodes, [fetch |-> i, profileId |-> resp.data.id,
                                           text |-> emergencyUrl(resp.data.id),
                                           status |-> "pending"])
                     ELSE encodes
    /\ toasts' = IF Throws(resp) THEN toasts + 1 ELSE toasts
    /\ fetchErrorLogs' = IF Throws(resp) THEN fetchErrorLogs + 1 ELSE fetchErrorLogs
    /\ loading' = IF mounted THEN LoadingAfterSettle(resp) ELSE loading
    /\ UNCHANGED <<user, origin, store, mounted, effectPending, qrCodeDataUrl, qrErrorLogs,
                   navLog, signOutPc, userChanges, sessionSeen>>

\* lines 75-83: toDataURL resolves
EncodeResolves(j) ==
    /\ ~effectPending
    /\ j \in 1..Len(encodes)
    /\ encodes[j].status = "pending"
    /\ encodes' = [encodes EXCEPT ![j].status = "ok"]
    /\ qrCodeDataUrl' = IF mounted THEN DataUrl(encodes[j].text) ELSE qrCodeDataUrl
    /\ UNCHANGED <<user, origin, store, mounted, effectPending, medicalProfile, loading,
                   fetches, toasts, fetchErrorLogs, qrErrorLogs, navLog, signOutPc,
                   userChanges, sessionSeen>>

\* lines 84-86: toDataURL rejects
EncodeRejects(j) ==
    /\ ~effectPending
    /\ j \in 1..Len(encodes)
    /\ encodes[j].status = "pending"
    /\ encodes' = [encodes EXCEPT ![j].status = "failed"]
    /\ qrErrorLogs' = qrErrorLogs + 1
    /\ UNCHANGED <<user, origin, store, mounted, effectPending, medicalProfile,
                   qrCodeDataUrl, loading, fetches, toasts, fetchErrorLogs, navLog,
                   signOutPc, userChanges, sessionSeen>>

Interactive == mounted /\ ~effectPending

\* lines 89-90: click on Sign Out, up to `await signOut()`
HandleSignOut ==
    /\ Interactive
    /\ Rendered(Button("Sign Out", "signOut"))
    /\ signOutPc = "idle"
    /\ signOutPc' = "awaiting"
    /\ UNCHANGED <<user, origin, store, mounted, effectPending, medicalProfile,
                   qrCodeDataUrl, loading, fetches, encodes, toasts, fetchErrorLogs,
                   qrErrorLogs, navLog, userChanges, sessionSeen>>

\* lines 90-91: signOut() has ended the session; then navigate('/')
SignOutResolves ==
    /\ signOutPc = "awaiting"
    /\ ~effectPending
    /\ signOutPc' = "done"
    /\ user' = NoUser
    /\ effectPending' = (mounted /\ user # NoUser)
    /\ navigate("/")
    /\ UNCHANGED <<origin, store, mounted, medicalProfile, qrCodeDataUrl, loading, fetches,
                   encodes, toasts, fetchErrorLogs, qrErrorLogs, userChanges, sessionSeen>>

\* lines 94-96 (handleGoBack) and the inline onClick handlers of lines 171, 219,
\* 230 and 240: navigate(target).  Every target is another route and a click is
\* a discrete event, so the router leaves the Dashboard route before any other
\* event is handled.
ClickNavigate(k) ==
    /\ Interactive
    /\ k \in 1..Len(Screen)
    /\ Screen[k].kind = "button"
    /\ Screen[k].target # "signOut"
    /\ navigate(Screen[k].target)
    /\ mounted' = FALSE
    /\ UNCHANGED <<user, origin, store, effectPending, medicalProfile,
                   qrCodeDataUrl, loading, fetches, encodes, toasts, fetchErrorLogs,
                   qrErrorLogs, signOutPc, userChanges, sessionSeen>>

\* the session provider replaces the user (sign-in, sign-out elsewhere, expiry,
\* another account); the component re-renders and its effect is due again
AuthChange(u) ==
    /\ Interactive
    /\ u \in Users \cup {NoUser}
    /\ u # user
    /\ userChanges < MaxUserChanges
    /\ user' = u
    /\ effectPending' = TRUE
    /\ userChanges' = userChanges + 1
    /\ sessionSeen' = (sessionSeen \/ u # NoUser)
    /\ UNCHANGED <<origin, store, mounted, medicalProfile, qrCodeDataUrl, loading, fetches,
                   encodes, toasts, fetchErrorLogs, qrErrorLogs, navLog, signOutPc>>

\* the router acts on a navigate() call: the Dashboard route is left and the
\* component is torn down; nothing cancels what is in flight
RouteChange ==
    /\ mounted
    /\ Len(navLog) > 0
    /\ mounted' = FALSE
    /\ effectPending' = FALSE
    /\ UNCHANGED <<user, origin, store, medicalProfile, qrCodeDataUrl, loading, fetches,
                   encodes, toasts, fetchErrorLogs, qrErrorLogs, navLog, signOutPc,
                   userChanges, sessionSeen>>

AllResponses == UNION {Responses(u) : u \in Users}

Next ==
    \/ RunEffect
    \/ \E i \in 1..Len(fetches), resp \in AllResponses : SettleFetch(i, resp)
    \/ \E j \in 1..Len(encodes) : EncodeResolves(j)
    \/ \E j \in 1..Len(encodes) : EncodeRejects(j)
    \/ HandleSignOut
    \/ SignOutResolves
    \/ \E k \in 1..Len(Screen) : ClickNavigate(k)
    \/ \E u \in Users \cup {NoUser} : AuthChange(u)
    \/ RouteChange

Spec == Init /\ [][Next]_vars

\* ------------------------------------------------------------------ properties
FetchIds == 1..Len(fetches)
EncodeIds == 1..Len(encodes)

Settled(i) == fetches[i].status = "settled"

\* fetch i settles in this step
Settles(i) == fetches[i].status = "pending" /\ fetches'[i].status = "settled"

\* encode j is rejected in this step
Rejected(j) == encodes[j].status = "pending" /\ encodes'[j].status = "failed"

CreateControls ==
    { k \in 1..Len(Screen) :
        Screen[k].kind = "button" /\ Screen[k].label = "Create Medical Profile" }

IsProfileContent(e) ==
    \/ e.kind \in {"QRCodeGenerator", "MedicalProfileSummary"}
    \/ e.label \in {"Emergency Contact", "Emergency Contact Phone", "Blood Group",
                    "Preview Emergency View", "Edit Medical Profile"}

ShowsProfileContent == \E k \in 1..Len(Screen) : IsProfileContent(Screen[k])

\* a session, a fetch that settled "no rows", nothing displayed, loading over
EmptyProfileState ==
    /\ mounted /\ user # NoUser /\ ~loading /\ medicalProfile = Null
    /\ \E i \in FetchIds :
          Settled(i) /\ fetches[i].applied /\ fetches[i].resp.error = "PGRST116"

\* C1 (as stated): in the EmptyProfile state the screen has exactly one control
\* labelled "Create Medical Profile".
C1_ExactlyOneCreateControl == EmptyProfileState => Cardinality(CreateControls) = 1

\* C1 (amended): in the EmptyProfile state the screen has exactly two controls
\* labelled "Create Medical Profile", the one of the Profile Overview card and
\* the first button of the action bar, and both navigate to the profile-edit
\* page, which is the one create-profile target.
C1_TwoCreateControlsOneTarget ==
    EmptyProfileState =>
        /\ Cardinality(CreateControls) = 2
        /\ \A k \in CreateControls : Screen[k].target = "/profile/edit"
        /\ Rendered(Text("No medical profile found", ""))

C1_Witness == EmptyProfileState /\ CreateControls # {}

\* C2: while no session has been present since mount, the effect has issued
\* exactly the redirect to /auth (once it has run), no fetch has been issued,
\* and no profile content is rendered.
C2_NoSessionRedirectsOnly ==
    ~sessionSeen =>
        /\ user = NoUser
        /\ fetches = <<>>
        /\ ~ShowsProfileContent
        /\ navLog = IF effectPending THEN <<>> ELSE <<"/auth">>

C2_Witness == ~sessionSeen /\ ~effectPending /\ navLog = <<"/auth">> /\ mounted

\* C3 (as stated): a fetch of the current user that settles with PGRST116 and
\* no data leaves the mounted screen in the EmptyProfile display (loading
\* false, no profile), raises no toast, logs nothing and issues no encode.
C3_NoRowsEndsInEmptyProfile ==
    [][\A i \in FetchIds :
          (/\ Settles(i) /\ mounted /\ fetches[i].user = user
           /\ fetches'[i].resp.error = "PGRST116" /\ fetches'[i].resp.data = Null) =>
              /\ loading' = FALSE
              /\ medicalProfile' = Null
              /\ toasts' = toasts
              /\ fetchErrorLogs' = fetchErrorLogs
              /\ encodes' = encodes]_vars

\* C4: a fetch that settles with an error other than PGRST116 raises exactly
\* one toast, leaves the profile as it was and issues no encode, with or
\* without data in the response.
C4_OtherErrorToastsOnce ==
    [][\A i \in FetchIds :
          (Settles(i) /\ fetches'[i].resp.error \notin {"none", "PGRST116"}) =>
              /\ toasts' = toasts + 1
              /\ medicalProfile' = medicalProfile
              /\ qrCodeDataUrl' = qrCodeDataUrl
              /\ encodes' = encodes]_vars

C4_Witness ==
    \E i \in FetchIds :
        /\ Settled(i) /\ fetches[i].resp.error = "OTHER" /\ fetches[i].resp.data # Null
        /\ toasts = 1 /\ medicalProfile = Null /\ encodes = <<>>

\* C5: every text handed to the encoder is the origin, then "/emergency/",
\* then the id of the row the fetch returned, whatever the row's optional
\* fields; two encodes for the same id carry the same text.
C5_PayloadIsOriginEmergencyId ==
    /\ \A j \in EncodeIds :
          /\ encodes[j].profileId = fetches[encodes[j].fetch].resp.data.id
          /\ encodes[j].text = origin \o "/emergency/" \o encodes[j].profileId
    /\ \A j, k \in EncodeIds :
          encodes[j].profileId = encodes[k].profileId => encodes[j].text = encodes[k].text

C5_Witness ==
    \E j \in EncodeIds :
        /\ encodes[j].profileId = "abc123"
        /\ encodes[j].text = origin \o "/emergency/abc123"
        /\ fetches[encodes[j].fetch].resp.data.blood_group = NullString

\* C6: the screen is loading exactly as long as no fetch has settled on the
\* mounted screen: it starts loading, every settlement (row, no rows, other
\* error) ends loading, nothing else does, and a pending encode does not
\* keep it loading.
C6_LoadingUntilFetchSettles ==
    loading <=> ~(\E i \in FetchIds : Settled(i) /\ fetches[i].applied)

C6_Witness ==
    /\ mounted /\ ~loading
    /\ \E j \in EncodeIds : encodes[j].status = "pending"
    /\ \E i \in FetchIds : Settled(i) /\ fetches[i].resp.error = "OTHER"

\* C7: each fetch has one encode if it has settled without error with a row
\* whose id is non-empty, and none otherwise (pending, no rows, failed, empty
\* id); every encode is for the id of its fetch's row.
C7_OneEncodePerUsableRecord ==
    /\ \A i \in FetchIds :
          Cardinality({j \in EncodeIds : encodes[j].fetch = i}) =
              IF /\ Settled(i)
                 /\ fetches[i].resp.error \in {"none", "PGRST116"}
                 /\ fetches[i].resp.data # Null
                 /\ fetches[i].resp.data.id \notin {"", NullString}
              THEN 1 ELSE 0
    /\ \A j \in EncodeIds :
          /\ encodes[j].fetch \in FetchIds
          /\ encodes[j].profileId = fetches[encodes[j].fetch].resp.data.id

C7_Witness ==
    /\ \E j \in EncodeIds : encodes[j].profileId = "xyz789"
    /\ \E i \in FetchIds :
          Settled(i) /\ fetches[i].resp.error = "none" /\ fetches[i].resp.data.id = ""
    /\ Len(encodes) = 1

\* C8 (as stated): once the only encode has failed, the mounted screen shows
\* no QR code for the profile.
C8_FailedEncodeShowsNoQR ==
    (/\ mounted /\ encodes # <<>>
     /\ \A j \in EncodeIds : encodes[j].status = "failed") =>
        ~(\E k \in 1..Len(Screen) : Screen[k].kind = "QRCodeGenerator")

\* C8 (amended): a rejected encode is logged and changes nothing else: profile,
\* loading, qrCodeDataUrl, toasts, fetches and the number of encodes stay as
\* they were, a mounted screen is and stays Loaded, and the render is the same
\* as before, so the QR card of the displayed profile is still rendered.
C8_FailedEncodeIsSilent ==
    [][\A j \in EncodeIds :
          Rejected(j) =>
              /\ qrErrorLogs' = qrErrorLogs + 1
              /\ medicalProfile' = medicalProfile
              /\ loading' = loading
              /\ qrCodeDataUrl' = qrCodeDataUrl
              /\ toasts' = toasts
              /\ fetches' = fetches
              /\ Len(encodes') = Len(encodes)
              /\ Screen' = Screen
              /\ mounted =>
                    /\ ~loading' /\ medicalProfile' # Null
                    /\ medicalProfile'.id = encodes[j].profileId =>
                          (\E k \in 1..Len(Screen') :
                              Screen'[k] = Widget("QRCodeGenerator", encodes[j].profileId))]_vars

C8_Witness ==
    /\ mounted /\ encodes # <<>>
    /\ \A j \in EncodeIds : encodes[j].status = "failed"
    /\ qrCodeDataUrl = "" /\ toasts = 0 /\ Len(fetches) = 1
    /\ Rendered(Widget("QRCodeGenerator", medicalProfile.id))

\* C9 (as stated): after a change of user, once every fetch has settled, the
\* display is the result of the current user's fetch: its row if one was
\* found, the EmptyProfile display if it returned no rows.
C9_DisplayIsCurrentUsersResult ==
    (/\ mounted /\ user # NoUser /\ ~effectPending
     /\ Len(fetches) >= 2
     /\ \A i \in FetchIds : Settled(i)
     /\ fetches[Len(fetches)].user = user) =>
        LET last == fetches[Len(fetches)].resp IN
        /\ last.error = "none" => medicalProfile = last.data
        /\ last.error = "PGRST116" => medicalProfile = Null

\* C10 (as stated): on a mounted screen without a session no profile content
\* is rendered.
C10_NoSessionNoProfileContent ==
    (mounted /\ user = NoUser) => ~ShowsProfileContent

====
